---------------------------- MODULE Spec2Model ----------------------------
(***************************************************************************)
(* Model of the ctl math module (src/src/math.rs): the integer gcd, the    *)
(* extended gcd and the Fraction value type with its operators.            *)
(*                                                                         *)
(* Every function of the module is pure, so each one is an operator that   *)
(* computes what the Rust code computes on i32 values.  A call either      *)
(* returns a value, Ok(v), or panics, Fault(why).  Arithmetic overflow     *)
(* panics when the crate is built with overflow checks (debug profile) and *)
(* wraps modulo 2^32 otherwise (release profile); division by zero and     *)
(* i32::MIN / -1 panic in every profile.                                   *)
(***************************************************************************)
EXTENDS Integers, Sequences, FiniteSets, TLC

VARIABLES
    overflow_checks,  \* TRUE: debug profile (overflow panics); FALSE: release (wraps)
    in_a, in_b,       \* the i32 arguments of the call
    f1, f2, f3,       \* the Fraction arguments of the call
    op,               \* the function last called, "none" before any call
    res               \* the outcome of that call

vars == <<overflow_checks, in_a, in_b, f1, f2, f3, op, res>>

----------------------------------------------------------------------------
(* Bounds of the checked input ranges.                                     *)

MaxVal == 8        \* gcd / extended_gcd arguments range over -MaxVal..MaxVal
MaxFracVal == 2    \* components of the fractions given to the operators
MaxEqVal == 1      \* components of the three fractions given to ==
MaxRedVal == 6     \* components of the fraction given to reduce

----------------------------------------------------------------------------
(* i32 and the outcome of a computation.                                   *)

MaxI32 == 2147483647
MinI32 == -MaxI32 - 1

Ok(v) == [panic |-> FALSE, v |-> v]
Fault(why) == [panic |-> TRUE, why |-> why]

DivByZero == "attempt to divide by zero"
Overflow == "arithmetic overflow"

Abs(i) == IF i < 0 THEN -i ELSE i

\* Two's complement wrapping, written so that no intermediate value leaves
\* the i32 range.
AddInRange(i, j) ==
    /\ ~(i >= 0 /\ j > MaxI32 - i)
    /\ ~(i < 0 /\ j < MinI32 - i)

WAdd(i, j) ==
    IF i >= 0 /\ j > MaxI32 - i THEN (i - MaxI32 - 1) + (j - MaxI32 - 1)
    ELSE IF i < 0 /\ j < MinI32 - i THEN (i - MinI32) + (j - MinI32)
    ELSE i + j

WNeg(i) == IF i = MinI32 THEN MinI32 ELSE -i

\* i * j modulo 2^32 on 16-bit limbs: i = ih * 2^16 + il with 0 <= il < 2^16.
WMul(i, j) ==
    LET il == i % 65536
        ih == i \div 65536
        jl == j % 65536
        jh == j \div 65536
        t0 == (il % 256) * jl
        t1 == (il \div 256) * jl            \* il * jl = t1 * 2^8 + t0
        low == (t1 % 256) * 256 + t0
        pl == low % 65536                   \* il * jl = ph * 2^16 + pl
        ph == (t1 \div 256) + (low \div 65536)
        rh == (((ih * jl) % 65536) + ((il * jh) % 65536) + ph) % 65536
    IN  (IF rh >= 32768 THEN rh - 65536 ELSE rh) * 65536 + pl

MulInRange(i, j) ==
    IF i = 0 \/ j = 0 THEN TRUE
    ELSE IF i = MinI32 \/ j = MinI32 THEN i = 1 \/ j = 1
    ELSE IF (i > 0) = (j > 0)
         THEN Abs(i) <= MaxI32 \div Abs(j)
         ELSE -Abs(i) >= (MinI32 + Abs(j) - 1) \div Abs(j)

\* i32 `+`
Add32(i, j) ==
    IF AddInRange(i, j) THEN Ok(i + j)
    ELSE IF overflow_checks THEN Fault(Overflow) ELSE Ok(WAdd(i, j))

\* i32 unary `-`
Neg32(i) ==
    IF i # MinI32 THEN Ok(-i)
    ELSE IF overflow_checks THEN Fault(Overflow) ELSE Ok(WNeg(i))

\* i32 `-`
Sub32(i, j) ==
    IF j # MinI32 /\ AddInRange(i, -j) THEN Ok(i - j)
    ELSE IF j = MinI32 /\ i < 0 THEN Ok(i - j)
    ELSE IF overflow_checks THEN Fault(Overflow) ELSE Ok(WAdd(i, WNeg(j)))

\* i32 `*`
Mul32(i, j) ==
    IF MulInRange(i, j) THEN Ok(i * j)
    ELSE IF overflow_checks THEN Fault(Overflow) ELSE Ok(WMul(i, j))

\* i32::abs
Abs32(i) ==
    IF i # MinI32 THEN Ok(Abs(i))
    ELSE IF overflow_checks THEN Fault(Overflow) ELSE Ok(MinI32)

\* Quotient and remainder of the truncating division by a positive divisor.
TruncQuot(i, k) ==
    IF i >= 0 \/ i % k = 0 THEN i \div k ELSE (i \div k) + 1

TruncRem(i, k) ==
    IF i >= 0 \/ i % k = 0 THEN i % k ELSE (i % k) - k

\* i32 `/`: truncates toward zero
Div32(i, j) ==
    IF j = 0 THEN Fault(DivByZero)
    ELSE IF i = MinI32 /\ j = -1 THEN Fault(Overflow)
    ELSE IF j = MinI32 THEN Ok(IF i = MinI32 THEN 1 ELSE 0)
    ELSE IF j > 0 THEN Ok(TruncQuot(i, j))
    ELSE Ok(-TruncQuot(i, -j))

\* i32 `%`: the remainder has the sign of the dividend
Rem32(i, j) ==
    IF j = 0 THEN Fault(DivByZero)
    ELSE IF i = MinI32 /\ j = -1 THEN Fault(Overflow)
    ELSE IF j = MinI32 THEN Ok(IF i = MinI32 THEN 0 ELSE i)
    ELSE Ok(TruncRem(i, Abs(j)))

----------------------------------------------------------------------------
(* GCD                                                                     *)

\* Variant that tests the remainder instead of b and returns the dividend.
RECURSIVE gcd_stop_early(_, _)
gcd_stop_early(a, b) ==
    IF b = 0 THEN Ok(a)
    ELSE LET r == Rem32(a, b)
         IN  IF r.panic THEN r
             ELSE IF r.v = 0 THEN Ok(a)
             ELSE gcd_stop_early(b, r.v)

\* Variant without the b == 0 guard.
RECURSIVE gcd_rem_first(_, _)
gcd_rem_first(a, b) ==
    LET r == Rem32(a, b)
    IN  IF r.panic THEN r
        ELSE IF r.v = 0 THEN Ok(b)
        ELSE gcd_rem_first(b, r.v)

RECURSIVE gcd(_, _)
gcd(a, b) ==
    IF b = 0 THEN Ok(a)
    ELSE LET r == Rem32(a, b)
         IN  IF r.panic THEN r ELSE gcd(b, r.v)

\* The loop of extended_gcd; s and t are the two-element arrays.
RECURSIVE extended_gcd_loop(_, _, _, _)
extended_gcd_loop(a, b, s, t) ==
    LET q == Div32(a, b)
        r == Rem32(a, b)
    IN  IF q.panic THEN q
        ELSE IF r.panic THEN r
        ELSE IF r.v = 0 THEN Ok(<<b, s[2], t[2]>>)
        ELSE LET qs == Mul32(q.v, s[2])
                 s3 == IF qs.panic THEN qs ELSE Sub32(s[1], qs.v)
                 qt == Mul32(q.v, t[2])
                 t3 == IF qt.panic THEN qt ELSE Sub32(t[1], qt.v)
             IN  IF s3.panic THEN s3
                 ELSE IF t3.panic THEN t3
                 ELSE extended_gcd_loop(b, r.v, <<s[2], s3.v>>, <<t[2], t3.v>>)

extended_gcd(a, b) ==
    IF b = 0
    THEN LET m == Abs32(a)
         IN  IF m.panic THEN m ELSE Ok(<<m.v, 1, 0>>)
    ELSE LET aa == Mul32(a, a)
             bb == Mul32(b, b)
         IN  IF aa.panic THEN aa
             ELSE IF bb.panic THEN bb
             ELSE IF aa.v < bb.v
                  THEN extended_gcd_loop(b, a, <<1, 0>>, <<0, 1>>)
                  ELSE extended_gcd_loop(a, b, <<1, 0>>, <<0, 1>>)

----------------------------------------------------------------------------
(* Fraction                                                                *)

frac(a, b) == [q |-> a, d |-> b]

\* frac applied to two i32 expressions, evaluated in argument order.
MkFrac(x, y) ==
    IF x.panic THEN x ELSE IF y.panic THEN y ELSE Ok(frac(x.v, y.v))

\* Variant that writes the components in the wrong order.
reduce_swapped(self) ==
    LET r == gcd(self.q, self.d)
    IN  IF r.panic THEN r
        ELSE MkFrac(Div32(self.d, r.v), Div32(self.q, r.v))

reduce(self) ==
    LET r == gcd(self.q, self.d)
    IN  IF r.panic THEN r
        ELSE MkFrac(Div32(self.q, r.v), Div32(self.d, r.v))

neg(self) == MkFrac(Neg32(self.q), Ok(self.d))

\* Fraction * Fraction
mul(self, rhs) == MkFrac(Mul32(self.q, rhs.q), Mul32(self.d, rhs.d))

\* Variant that adds numerators and denominators componentwise.
add_componentwise(self, rhs) ==
    MkFrac(Add32(self.q, rhs.q), Add32(self.d, rhs.d))

\* Fraction + Fraction
add(self, rhs) ==
    LET a == mul(self, frac(rhs.d, rhs.d))
        b == mul(rhs, frac(self.d, self.d))
    IN  IF a.panic THEN a
        ELSE IF b.panic THEN b
        ELSE MkFrac(Add32(a.v.q, b.v.q), Ok(a.v.d))

\* Fraction + i32
add_i32(self, rhs) ==
    LET m == Mul32(rhs, self.d)
    IN  MkFrac(IF m.panic THEN m ELSE Add32(self.q, m.v), Ok(self.d))

\* i32 + Fraction
i32_add(self, rhs) == add_i32(rhs, self)

\* Fraction - Fraction
sub(self, rhs) ==
    LET a == mul(self, frac(rhs.d, rhs.d))
        b == mul(rhs, frac(self.d, self.d))
    IN  IF a.panic THEN a
        ELSE IF b.panic THEN b
        ELSE MkFrac(Sub32(a.v.q, b.v.q), Ok(a.v.d))

\* Fraction - i32
sub_i32(self, rhs) ==
    LET m == Neg32(rhs)
    IN  IF m.panic THEN m ELSE add_i32(self, m.v)

\* i32 - Fraction
i32_sub(self, rhs) ==
    LET m == Neg32(self)
    IN  IF m.panic THEN m ELSE i32_add(m.v, rhs)

\* Fraction * i32
mul_i32(self, rhs) == MkFrac(Mul32(self.q, rhs), Ok(self.d))

\* i32 * Fraction
i32_mul(self, rhs) == mul_i32(rhs, self)

\* Fraction / Fraction
div(self, rhs) == MkFrac(Mul32(self.q, rhs.d), Mul32(self.d, rhs.q))

\* Fraction / i32
div_i32(self, rhs) == MkFrac(Ok(self.q), Mul32(self.d, rhs))

\* i32 / Fraction
i32_div(self, rhs) == MkFrac(Mul32(rhs.d, self), Ok(rhs.q))

\* i32 == applied to two i32 expressions, the left one evaluated first.
EqVal(l, r) ==
    IF l.panic THEN l ELSE IF r.panic THEN r ELSE Ok(l.v = r.v)

\* Variant that multiplies like components instead of crossing them.
eq_uncrossed(self, other) ==
    EqVal(Mul32(self.q, other.q), Mul32(self.d, other.d))

\* Fraction == Fraction
eq(self, other) ==
    EqVal(Mul32(self.q, other.d), Mul32(self.d, other.q))

----------------------------------------------------------------------------
(* Calls.  The arguments are chosen by the initial state; every action     *)
(* is one call of one function on them and records its outcome.            *)

BigVals == {MinI32, MaxI32, 65536}

Profiles == BOOLEAN

GcdVals == (-MaxVal .. MaxVal) \cup BigVals
FracVals == (-MaxFracVal .. MaxFracVal) \cup BigVals
EqVals == (-MaxEqVal .. MaxEqVal) \cup {MinI32, 65536}
RedVals == (-MaxRedVal .. MaxRedVal) \cup BigVals

Fractions(S) == {frac(a, b) : a \in S, b \in S}

Unused == frac(0, 1)

Call(name, outcome) ==
    /\ op' = name
    /\ res' = outcome
    /\ UNCHANGED <<overflow_checks, in_a, in_b, f1, f2, f3>>

\* --- gcd and extended_gcd on two integers -------------------------------
InitGcd ==
    /\ overflow_checks \in Profiles
    /\ in_a \in GcdVals
    /\ in_b \in GcdVals
    /\ f1 = Unused /\ f2 = Unused /\ f3 = Unused
    /\ op = "none"
    /\ res = Ok(0)

CallGcd == Call("gcd", gcd(in_a, in_b))

CallExtendedGcd == Call("extended_gcd", extended_gcd(in_a, in_b))

NextGcd == CallGcd \/ CallExtendedGcd

SpecGcd == InitGcd /\ [][NextGcd]_vars

\* --- the operators on two fractions -------------------------------------
InitArith ==
    /\ overflow_checks \in Profiles
    /\ in_a = 0 /\ in_b = 0
    /\ f1 \in Fractions(FracVals)
    /\ f2 \in Fractions(FracVals)
    /\ f3 = Unused
    /\ op = "none"
    /\ res = Ok(0)

CallAdd == Call("add", add(f1, f2))

CallSub == Call("sub", sub(f1, f2))

CallMul == Call("mul", mul(f1, f2))

CallDiv == Call("div", div(f1, f2))

NextArith == CallAdd \/ CallSub \/ CallMul \/ CallDiv

SpecArith == InitArith /\ [][NextArith]_vars

\* --- the operators on a fraction and an integer -------------------------
InitMixed ==
    /\ overflow_checks \in Profiles
    /\ in_a \in FracVals \cup {3}
    /\ in_b = 0
    /\ f1 \in Fractions(FracVals)
    /\ f2 = Unused /\ f3 = Unused
    /\ op = "none"
    /\ res = Ok(0)

CallNeg == Call("neg", neg(f1))

CallAddI32 == Call("add_i32", add_i32(f1, in_a))

CallI32Add == Call("i32_add", i32_add(in_a, f1))

CallSubI32 == Call("sub_i32", sub_i32(f1, in_a))

CallI32Sub == Call("i32_sub", i32_sub(in_a, f1))

CallMulI32 == Call("mul_i32", mul_i32(f1, in_a))

CallI32Mul == Call("i32_mul", i32_mul(in_a, f1))

CallDivI32 == Call("div_i32", div_i32(f1, in_a))

CallI32Div == Call("i32_div", i32_div(in_a, f1))

NextMixed ==
    \/ CallNeg
    \/ CallAddI32 \/ CallI32Add
    \/ CallSubI32 \/ CallI32Sub
    \/ CallMulI32 \/ CallI32Mul
    \/ CallDivI32 \/ CallI32Div

SpecMixed == InitMixed /\ [][NextMixed]_vars

\* --- reduce -------------------------------------------------------------
InitReduce ==
    /\ overflow_checks \in Profiles
    /\ in_a = 0 /\ in_b = 0
    /\ f1 \in Fractions(RedVals)
    /\ f2 = Unused /\ f3 = Unused
    /\ op = "none"
    /\ res = Ok(0)

\* f.reduce()
CallReduce == Call("reduce", reduce(f1))

\* f.reduce().reduce(), the first result kept in f2
CallReduceAgain ==
    /\ op = "reduce"
    /\ ~res.panic
    /\ op' = "reduce_reduce"
    /\ f2' = res.v
    /\ res' = reduce(res.v)
    /\ UNCHANGED <<overflow_checks, in_a, in_b, f1, f3>>

NextReduce == CallReduce \/ CallReduceAgain

SpecReduce == InitReduce /\ [][NextReduce]_vars

\* --- == on three fractions ----------------------------------------------
InitEq ==
    /\ overflow_checks \in Profiles
    /\ in_a = 0 /\ in_b = 0
    /\ f1 \in Fractions(EqVals)
    /\ f2 \in Fractions(EqVals)
    /\ f3 \in Fractions(EqVals)
    /\ op = "none"
    /\ res = Ok(0)

\* the comparisons f1 == f1, f1 == f2, f2 == f1, f2 == f3 and f1 == f3
CallEq ==
    Call("eq", Ok([refl |-> eq(f1, f1), ab |-> eq(f1, f2), ba |-> eq(f2, f1),
                   bc |-> eq(f2, f3), ac |-> eq(f1, f3)]))

NextEq == CallEq

SpecEq == InitEq /\ [][NextEq]_vars

----------------------------------------------------------------------------
(* Properties                                                              *)

Small(i, m) == -m <= i /\ i <= m

SmallFrac(f, m) == Small(f.q, m) /\ Small(f.d, m)

\* Rust's i % g == 0
Divides32(g, i) == Rem32(i, g) = Ok(0)

Holds(x) == x = Ok(TRUE)

\* No product of the comparison f == g leaves the i32 range.
EqInRange(f, g) == MulInRange(f.q, g.d) /\ MulInRange(f.d, g.q)

BinaryOps == {"add", "sub", "mul", "div"}

\* The cross-multiplied pair of each operator, computed over the integers.
CrossMultiplied(name, f, g) ==
    CASE name = "add" -> frac(f.q * g.d + g.q * f.d, f.d * g.d)
      [] name = "sub" -> frac(f.q * g.d - g.q * f.d, f.d * g.d)
      [] name = "mul" -> frac(f.q * g.q, f.d * g.d)
      [] name = "div" -> frac(f.q * g.d, f.d * g.q)

ArithCase ==
    /\ op \in BinaryOps
    /\ SmallFrac(f1, MaxFracVal) /\ SmallFrac(f2, MaxFracVal)
    /\ f1.d # 0 /\ f2.d # 0
    /\ op = "div" => f2.q # 0

\* C1: for a and b in -MaxVal..MaxVal, not both zero, gcd(a, b) returns a
\* nonzero g with a % g == 0 and b % g == 0, and no positive common divisor
\* of a and b exceeds |g|.
C1_GcdIsGreatestCommonDivisor ==
    (/\ op = "gcd"
     /\ Small(in_a, MaxVal) /\ Small(in_b, MaxVal)
     /\ ~(in_a = 0 /\ in_b = 0))
    => /\ ~res.panic
       /\ Divides32(res.v, in_a)
       /\ Divides32(res.v, in_b)
       /\ \A k \in 1 .. MaxVal :
              (in_a % k = 0 /\ in_b % k = 0) => k <= Abs(res.v)

\* gcd(-6, -4) returned -2: a negative greatest common divisor.
C1_Witness ==
    op = "gcd" /\ in_a = -6 /\ in_b = -4 /\ res = Ok(-2)

\* C2: for nonzero a and b in -MaxVal..MaxVal, extended_gcd(a, b) returns
\* (g, s, t) with a*s + b*t == g for the arguments in the order passed.
C2_BezoutIdentity ==
    (/\ op = "extended_gcd"
     /\ Small(in_a, MaxVal) /\ Small(in_b, MaxVal)
     /\ in_a # 0 /\ in_b # 0)
    => /\ ~res.panic
       /\ in_a * res.v[2] + in_b * res.v[3] = res.v[1]

\* C3: for fractions with components in -MaxFracVal..MaxFracVal and nonzero
\* denominators (nonzero q2 for division), f1 + f2, f1 - f2, f1 * f2 and
\* f1 / f2 return a fraction that == finds equal to the cross-multiplied
\* pair of the operator.
C3_OperatorsCrossMultiply ==
    ArithCase
    => /\ ~res.panic
       /\ Holds(eq(res.v, CrossMultiplied(op, f1, f2)))

\* 1/2 - 2/1 returned (1*1 - 2*2, 2*1).
C3_Witness ==
    op = "sub" /\ f1 = frac(1, 2) /\ f2 = frac(2, 1) /\ res = Ok(frac(-3, 2))

\* C4: for n and the components of f = (q, d) in the small range, d # 0,
\* n - f returns a fraction that == finds equal to frac(n*d - q, d).
C4_IntegerMinusFraction ==
    (/\ op = "i32_sub"
     /\ Small(in_a, MaxFracVal + 1)
     /\ SmallFrac(f1, MaxFracVal)
     /\ f1.d # 0)
    => /\ ~res.panic
       /\ Holds(eq(res.v, frac(in_a * f1.d - f1.q, f1.d)))

\* C5 as stated, read where no product of the comparisons overflows i32:
\* == is reflexive, symmetric and transitive over every fraction that frac
\* can construct, zero denominators included.
C5_EqIsEquivalenceEverywhere ==
    (/\ op = "eq"
     /\ EqInRange(f1, f2) /\ EqInRange(f2, f3) /\ EqInRange(f1, f3)
     /\ EqInRange(f1, f1))
    => /\ Holds(res.v.refl)
       /\ Holds(res.v.ab) => Holds(res.v.ba)
       /\ (Holds(res.v.ab) /\ Holds(res.v.bc)) => Holds(res.v.ac)

\* C5 as amended: over every fraction, zero denominators included, == is
\* reflexive and symmetric whenever the comparison returns, and it is
\* transitive when the middle fraction is not frac(0, 0) and no product of
\* the three comparisons overflows i32.
C5_EqIsEquivalenceExceptZeroZero ==
    op = "eq"
    => /\ res.v.refl.panic \/ Holds(res.v.refl)
       /\ Holds(res.v.ab) => Holds(res.v.ba)
       /\ (/\ EqInRange(f1, f2) /\ EqInRange(f2, f3) /\ EqInRange(f1, f3)
           /\ f2 # frac(0, 0)
           /\ Holds(res.v.ab) /\ Holds(res.v.bc))
          => Holds(res.v.ac)

\* Three distinct fractions with zero denominators compared equal through a
\* middle fraction that is not frac(0, 0).
C5_Witness ==
    /\ op = "eq"
    /\ f1 = frac(1, 0) /\ f2 = frac(-1, 0) /\ f3 = frac(65536, 0)
    /\ Holds(res.v.refl) /\ Holds(res.v.ab) /\ Holds(res.v.ba)
    /\ Holds(res.v.bc) /\ Holds(res.v.ac)

\* C6: each fraction-by-fraction operator returns the components of
\* reduce() applied to the cross-multiplied pair.
C6_OperatorsReduceResult ==
    ArithCase => res = reduce(CrossMultiplied(op, f1, f2))

\* C7: when f.reduce() returns, f.reduce().reduce() returns the same
\* numerator and denominator, and == finds the two equal wherever its
\* products stay in the i32 range.
C7_ReduceIdempotent ==
    (op = "reduce_reduce" /\ f1 # frac(0, 0))
    => /\ res = Ok(f2)
       /\ EqInRange(res.v, f2) => Holds(eq(res.v, f2))

\* -2/4 was reduced by the gcd -2 to 1/-2, and reducing again gave 1/-2.
C7_Witness ==
    /\ op = "reduce_reduce"
    /\ f1 = frac(-2, 4) /\ f2 = frac(1, -2)
    /\ gcd(f1.q, f1.d) = Ok(-2)
    /\ res = Ok(frac(1, -2))

\* C8: an operator given a fraction with denominator zero panics with a
\* division by zero.
C8_ZeroDenominatorFaults ==
    (/\ op \in BinaryOps
     /\ SmallFrac(f1, MaxFracVal) /\ SmallFrac(f2, MaxFracVal)
     /\ f1.d = 0 \/ f2.d = 0)
    => (res.panic /\ res.why = DivByZero)

\* C9: for a in -MaxVal..MaxVal and nonzero b in that range, the first
\* component returned by extended_gcd(a, b) is gcd(a, b), sign included.
C9_ExtendedGcdAgreesWithGcd ==
    (/\ op = "extended_gcd"
     /\ Small(in_a, MaxVal) /\ Small(in_b, MaxVal)
     /\ in_b # 0)
    => /\ ~res.panic
       /\ Ok(res.v[1]) = gcd(in_a, in_b)

\* C10 as stated: gcd(0, 0) returns no value.
C10_GcdZeroZeroReturnsNothing ==
    (op = "gcd" /\ in_a = 0 /\ in_b = 0) => res.panic

\* C10 as amended: gcd(0, 0) returns 0.
C10_GcdZeroZeroReturnsZero ==
    (op = "gcd" /\ in_a = 0 /\ in_b = 0) => res = Ok(0)

\* gcd was called on (0, 0) and returned.
C10_Witness ==
    op = "gcd" /\ in_a = 0 /\ in_b = 0 /\ ~res.panic

=============================================================================
